---------------------------- MODULE Spec2Model ----------------------------
(***************************************************************************)
(* Lipsync timing-to-keyframe translation of the Text-to-Face Blender      *)
(* add-on.  Two generations of the add-on are modelled:                    *)
(*                                                                         *)
(*   "direct"   text_to_face_blender/__init__.py : generate_and_import     *)
(*              (Mode A) writes viseme keyframes on the active object;     *)
(*   "timeline" blender-plugin/__init__.py : generate_audio (Mode B)       *)
(*              splits the sound strip of the sequencer into word and      *)
(*              phoneme strips, export_shape_keys turns the phoneme        *)
(*              strips into keyframes.                                     *)
(*                                                                         *)
(* Both files register the same classes and bl_idnames, so one Blender     *)
(* session runs one of them; which one is fixed by Init.                   *)
(*                                                                         *)
(* Time.  Timestamps of the timing document are multiples of               *)
(* 1/TicksPerSecond second.  TicksPerSecond is a power of two, so every    *)
(* timestamp and every product t * fps is an exactly representable binary  *)
(* float and Python's int() and round() act on the exact rational.         *)
(*                                                                         *)
(* Strengths 0.0 and 1.0 are written 0 and 1.                              *)
(***************************************************************************)
EXTENDS Integers, Sequences, FiniteSets, TLC

VARIABLES
    addon,          \* which add-on file is registered: "direct" or "timeline"
    fps,            \* context.scene.render.fps
    value,          \* key.value of every shape key of the object (DOMAIN = key_blocks)
    kf,             \* keyframes of every shape key: frame -> value
    strips,         \* seq.sequences_all, in list order
    doc,            \* word_segments of the JSON the last operator read
    prev_doc,       \* word_segments read by the generation before that one
    last,           \* the operator that ran last
    stage,          \* how many operators have run in this session
    result,         \* what the last operator returned
    events,         \* the insert_viseme calls of the last generate_and_import
    splits,         \* the sequencer.split calls of the last generate_audio
    strips_by_word, \* generate_audio's list of (strip, word) pairs
    word_strips     \* sequences_all as generate_audio's word-level loop left it

vars == <<addon, fps, value, kf, strips, doc, prev_doc, last, stage, result, events,
          splits, strips_by_word, word_strips>>

---------------------------------------------------------------------------
(* Bounds of the model *)

\* timestamps are multiples of 2^-TickBits second
TickBits == 4
\* timestamps range over 0 .. MaxTick ticks
MaxTick == 4
\* a timing document has at most MaxWords word segments
MaxWords == 3
\* the audio lasts at most MaxTail frames longer than the last word
MaxTail == 1
\* operators run per session
MaxRuns == 2

TicksPerSecond == 2 ^ TickBits

\* frame rates of the scene: animation "on twos" and film
FpsSet == {12, 24}

---------------------------------------------------------------------------
(* Strings *)

StartsWith(s, prefix) ==
    Len(s) >= Len(prefix) /\ SubSeq(s, 1, Len(prefix)) = prefix

\* Python's s[n:]
SliceFrom(s, n) == IF Len(s) <= n THEN "" ELSE SubSeq(s, n + 1, Len(s))

RECURSIVE Replace(_, _)
\* Python's s.replace(c, '') for a one-character c
Replace(s, c) ==
    IF s = "" THEN ""
    ELSE IF Head(s) = c THEN Replace(Tail(s), c)
    ELSE Head(s) \o Replace(Tail(s), c)

---------------------------------------------------------------------------
(* The phoneme -> viseme table, the same in both files *)

ARPABET_TO_VISEME ==
    [p \in {"AA", "AE", "AH", "AO", "AW", "AY"} |-> "viseme_AA"] @@
    [p \in {"B", "M", "P"} |-> "viseme_BM"] @@
    [p \in {"CH", "JH"} |-> "viseme_CH"] @@
    [p \in {"D", "DH", "T"} |-> "viseme_D"] @@
    [p \in {"EH", "EY"} |-> "viseme_E"] @@
    [p \in {"F", "V"} |-> "viseme_FV"] @@
    [p \in {"G", "K", "NG"} |-> "viseme_GK"] @@
    [p \in {"IH", "IY"} |-> "viseme_I"] @@
    [p \in {"L"} |-> "viseme_L"] @@
    [p \in {"N"} |-> "viseme_N"] @@
    [p \in {"OW", "OY", "UH", "UW"} |-> "viseme_O"] @@
    [p \in {"R"} |-> "viseme_R"] @@
    [p \in {"S", "Z"} |-> "viseme_S"] @@
    [p \in {"SH", "ZH"} |-> "viseme_SH"] @@
    [p \in {"TH"} |-> "viseme_TH"] @@
    [p \in {"W"} |-> "viseme_W"] @@
    [p \in {"Y"} |-> "viseme_Y"]

None == "None"

\* dict.get(key): the value, or None
TableGet(key) ==
    IF key \in DOMAIN ARPABET_TO_VISEME THEN ARPABET_TO_VISEME[key] ELSE None

\* generate_and_import: viseme = ARPABET_TO_VISEME.get(ph)
ClassifyDirect(ph) == TableGet(ph)

\* export_shape_keys: mapping.get(ph.replace('1','').replace('0',''), None)
ClassifyExport(ph) == TableGet(Replace(Replace(ph, "1"), "0"))

---------------------------------------------------------------------------
(* Timestamp -> frame *)

\* int(t * fps) for t >= 0: truncation
IntFrame(t, rate) == (t * rate) \div TicksPerSecond

\* Python 3 round(a / b) for a >= 0, b > 0: nearest, an exact half to the even side
PyRound(num, den) ==
    LET q == num \div den
        r == num % den
    IN  IF 2 * r < den THEN q
        ELSE IF 2 * r > den THEN q + 1
        ELSE IF q % 2 = 0 THEN q ELSE q + 1

\* int(round(t * fps))
RoundFrame(t, rate) == PyRound(t * rate, TicksPerSecond)

---------------------------------------------------------------------------
(* Timing documents the backend can emit: chronological, non-overlapping    *)
(* words with start < end, each with the phonemes of its pronunciation.    *)

Lexicon ==
    { [word |-> "Hi",  phonemes |-> <<"HH", "AY1">>],
      [word |-> "I",   phonemes |-> <<"AY1">>],
      [word |-> "but", phonemes |-> <<"B", "AH0", "T">>],
      [word |-> "-",   phonemes |-> <<>>] }

WordsFrom(t0) ==
    UNION { UNION { { [word |-> l.word, start |-> s, end |-> e,
                       phonemes |-> l.phonemes] : l \in Lexicon }
                    : e \in (s + 1) .. MaxTick }
            : s \in t0 .. MaxTick }

RECURSIVE DocsFrom(_, _)
DocsFrom(t0, n) ==
    IF n = 0 THEN { <<>> }
    ELSE { <<>> } \cup
         UNION { { <<w>> \o d : d \in DocsFrom(w.end, n - 1) } : w \in WordsFrom(t0) }

\* The example document of the design notes: "Hi" from 0.0 s to 0.5 s.
ExampleDoc ==
    << [word |-> "Hi", start |-> 0, end |-> TicksPerSecond \div 2,
        phonemes |-> <<"HH", "AY1">>] >>

\* A word with a secondary stress: "okay".
StressDoc ==
    << [word |-> "okay", start |-> 0, end |-> 3,
        phonemes |-> <<"OW2", "K", "EY1">>] >>

Docs == DocsFrom(0, MaxWords) \cup {ExampleDoc, StressDoc}

\* Documents read by a regeneration on the same object: the same text again
\* (document d), or an edited, shorter text.
EditedDocs ==
    { <<>>,
      << [word |-> "but", start |-> 0, end |-> 1, phonemes |-> <<"B", "AH0", "T">>] >>,
      << [word |-> "I", start |-> 1, end |-> 2, phonemes |-> <<"AY1">>] >> }

NextDocs(d) == {d} \cup EditedDocs

---------------------------------------------------------------------------
(* The object's shape keys *)

Targets ==
    { [ value |-> [k \in {"Basis", "viseme_AA", "viseme_BM", "viseme_D", "viseme_sil"}
                      |-> 0] ],
      [ value |-> [k \in {"Basis", "viseme_AA", "viseme_BM"}
                      |-> IF k = "viseme_BM" THEN 1 ELSE 0] ],
      [ value |-> << >> ] }

NoKeyframes == << >>

\* KeyframeInsert leaving a frame that has a keyframe as it is (the bug C16 rules
\* out)
KeyframeInsertKeepFirst(st, name, f) ==
    [st EXCEPT !.kf[name] = @ @@ (f :> st.value[name])]

\* key.keyframe_insert(data_path="value", frame=f): key.value is recorded at f
KeyframeInsert(st, name, f) ==
    [st EXCEPT !.kf[name] = (f :> st.value[name]) @@ @]

\* ClearKeyRange without "key.value = 0.0": the key's current value is keyed
\* (the bug C5 rules out)
ClearKeyRangeKeepValue(st, name, f, frame_end) ==
    IF f > frame_end THEN st
    ELSE [st EXCEPT !.kf[name] = [g \in f .. frame_end |-> st.value[name]] @@ @]

\* for f in range(f, frame_end + 1): key.value = 0.0; key.keyframe_insert(frame=f)
\* Every pass of the loop sets key.value to 0.0 and keys it at its own frame, so
\* the loop leaves key.value = 0.0 and a keyframe of 0.0 at every frame of
\* f .. frame_end; an empty range leaves the key as it was.
ClearKeyRange(st, name, f, frame_end) ==
    IF f > frame_end THEN st
    ELSE [st EXCEPT !.value[name] = 0,
                    !.kf[name] = [g \in f .. frame_end |-> 0] @@ @]

RECURSIVE ClearKeysEveryKey(_, _, _, _)
\* ClearKeys without the test of the key's name (the bug C14 rules out)
ClearKeysEveryKey(st, names, frame_start, frame_end) ==
    IF names = {} THEN st
    ELSE LET name == CHOOSE k \in names : TRUE
         IN  ClearKeysEveryKey(ClearKeyRange(st, name, frame_start, frame_end),
                               names \ {name}, frame_start, frame_end)

RECURSIVE ClearKeys(_, _, _, _)
\* for key in key_blocks: if key.name.startswith("viseme_"): <the loop over f>
ClearKeys(st, names, frame_start, frame_end) ==
    IF names = {} THEN st
    ELSE LET name == CHOOSE k \in names : TRUE
             next == IF StartsWith(name, "viseme_")
                     THEN ClearKeyRange(st, name, frame_start, frame_end)
                     ELSE st
         IN  ClearKeys(next, names \ {name}, frame_start, frame_end)

clear_viseme_keys(st, frame_start, frame_end) ==
    IF DOMAIN st.value = {} THEN st
    ELSE ClearKeys(st, DOMAIN st.value, frame_start, frame_end)

insert_viseme(st, viseme, frame, strength) ==
    IF DOMAIN st.value = {} THEN st
    ELSE IF viseme \in DOMAIN st.value
         THEN KeyframeInsert([st EXCEPT !.value[viseme] = strength], viseme, frame)
         ELSE st

---------------------------------------------------------------------------
(* Mode A: TEXTTOFACE_OT_generate_and_import.execute *)

\* One insert_viseme call; word is the index of the word it was made for.
Call(viseme, frame, strength, w) ==
    [viseme |-> viseme, frame |-> frame, strength |-> strength, word |-> w]

RECURSIVE PhonemeCallsNoRelease(_, _, _, _)
\* PhonemeCalls without the deactivation call (the bug C3 rules out)
PhonemeCallsNoRelease(phonemes, start, end, w) ==
    IF phonemes = <<>> THEN <<>>
    ELSE LET viseme == ClassifyDirect(Head(phonemes))
         IN  (IF viseme # None THEN <<Call(viseme, start, 1, w)>> ELSE <<>>)
             \o PhonemeCallsNoRelease(Tail(phonemes), start, end, w)

RECURSIVE PhonemeCallsStopAtUnknown(_, _, _, _)
\* PhonemeCalls leaving the word at the first phoneme without a viseme (the bug
\* C13 rules out)
PhonemeCallsStopAtUnknown(phonemes, start, end, w) ==
    IF phonemes = <<>> THEN <<>>
    ELSE LET viseme == ClassifyDirect(Head(phonemes))
         IN  IF viseme # None
             THEN <<Call(viseme, start, 1, w), Call(viseme, end, 0, w)>>
                  \o PhonemeCallsStopAtUnknown(Tail(phonemes), start, end, w)
             ELSE <<>>

RECURSIVE PhonemeCalls(_, _, _, _)
\* for ph in phonemes: viseme = ...get(ph); if viseme: insert(start, 1.0); insert(end, 0.0)
PhonemeCalls(phonemes, start, end, w) ==
    IF phonemes = <<>> THEN <<>>
    ELSE LET viseme == ClassifyDirect(Head(phonemes))
         IN  (IF viseme # None
              THEN <<Call(viseme, start, 1, w), Call(viseme, end, 0, w)>>
              ELSE <<>>)
             \o PhonemeCalls(Tail(phonemes), start, end, w)

RECURSIVE WordCallsSwapped(_, _, _)
\* WordCalls with start and end exchanged (the bug C7 rules out)
WordCallsSwapped(d, i, rate) ==
    IF i > Len(d) THEN <<>>
    ELSE PhonemeCalls(d[i].phonemes, IntFrame(d[i].end, rate),
                      IntFrame(d[i].start, rate), i)
         \o WordCallsSwapped(d, i + 1, rate)

RECURSIVE WordCalls(_, _, _)
\* for word in word_segments, from the i-th on
WordCalls(d, i, rate) ==
    IF i > Len(d) THEN <<>>
    ELSE PhonemeCalls(d[i].phonemes, IntFrame(d[i].start, rate),
                      IntFrame(d[i].end, rate), i)
         \o WordCalls(d, i + 1, rate)

RECURSIVE ApplyCalls(_, _)
\* The insert_viseme calls in the order they are made; on an object without shape
\* keys every one of them returns at once.
ApplyCalls(st, calls) ==
    IF calls = <<>> \/ DOMAIN st.value = {} THEN st
    ELSE ApplyCalls(insert_viseme(st, Head(calls).viseme, Head(calls).frame,
                                  Head(calls).strength),
                    Tail(calls))

\* frame_start = int(word_segments[0]["start"] * fps) if word_segments else 1
ClearStart(d, rate) == IF d # <<>> THEN IntFrame(d[1].start, rate) ELSE 1
\* frame_end = int(word_segments[-1]["end"] * fps) if word_segments else 1
ClearEnd(d, rate) == IF d # <<>> THEN IntFrame(d[Len(d)].end, rate) ELSE 1

\* The shape keys after generate_and_import has read document d.
ModeA(st, d, rate) ==
    ApplyCalls(clear_viseme_keys(st, ClearStart(d, rate), ClearEnd(d, rate)),
               WordCalls(d, 1, rate))

\* The first generation of a session reads any document; a regeneration on the
\* same object reads one of NextDocs(doc).
GenerateAndImport ==
    /\ addon = "direct"
    /\ stage < MaxRuns
    /\ stage' = stage + 1
    /\ last' = "generate_and_import"
    /\ IF DOMAIN value = {}
       THEN \* "Select a mesh with shape keys!": nothing is read or written
            /\ result' = "CANCELLED"
            /\ UNCHANGED <<value, kf, doc, prev_doc, events>>
       ELSE \E d \in (IF stage = 0 THEN Docs ELSE NextDocs(doc)) :
            LET st == ModeA([value |-> value, kf |-> kf], d, fps)
            IN  /\ result' = "FINISHED"
                /\ doc' = d
                /\ prev_doc' = IF stage = 0 THEN <<"none">> ELSE doc
                /\ events' = WordCalls(d, 1, fps)
                /\ value' = st.value
                /\ kf' = st.kf
    /\ UNCHANGED <<addon, fps, strips, splits, strips_by_word, word_strips>>

---------------------------------------------------------------------------
(* The sequencer.  A strip is [type, name, start, end]: start and end are   *)
(* frame_final_start and frame_final_end, the strip covers [start, end).    *)
(* A strip is known by its index in sequences_all: a split keeps the        *)
(* original strip object as the left piece and appends the right piece.     *)

AudioName == "speech.wav"

Min(S) == CHOOSE x \in S : \A y \in S : x <= y
Max(S) == CHOOSE x \in S : \A y \in S : x >= y

\* bpy.ops.sequencer.sound_strip_add(filepath=wav_path, frame_start=1, channel=1)
sound_strip_add(ss, audio_frames) ==
    Append(ss, [type |-> "SOUND", name |-> AudioName, start |-> 1,
                end |-> 1 + audio_frames])

\* Split cutting at the ends of the strip too (the bug C10 rules out)
SplitAtEnds(ss, k, f) ==
    IF ss[k].start <= f /\ f <= ss[k].end
    THEN Append([ss EXCEPT ![k].end = f], [ss[k] EXCEPT !.start = f])
    ELSE ss

\* bpy.ops.sequencer.split(frame=f, type='SOFT') with strip k the only selected
\* strip: the strip is cut where f lies strictly inside it, else nothing happens.
Split(ss, k, f) ==
    IF ss[k].start < f /\ f < ss[k].end
    THEN Append([ss EXCEPT ![k].end = f], [ss[k] EXCEPT !.start = f])
    ELSE ss

\* for s in seq.sequences_all: if s.type == 'SOUND' and s.frame_final_start == a
\*     and s.frame_final_end == b: ...; break         (0: the loop found none)
FindSound(ss, a, b) ==
    LET S == { k \in 1 .. Len(ss) :
                 ss[k].type = "SOUND" /\ ss[k].start = a /\ ss[k].end = b }
    IN  IF S = {} THEN 0 ELSE Min(S)

\* for s in seq.sequences_all: if s.type == 'SOUND' and s.frame_final_start == a: ...
FindSoundAt(ss, a) ==
    LET S == { k \in 1 .. Len(ss) : ss[k].type = "SOUND" /\ ss[k].start = a }
    IN  IF S = {} THEN 0 ELSE Min(S)

FindMeta(ss, a, b) ==
    LET S == { k \in 1 .. Len(ss) :
                 ss[k].type = "META" /\ ss[k].start = a /\ ss[k].end = b }
    IN  IF S = {} THEN 0 ELSE Min(S)

\* One sequencer.split call, as the operator asked for it.
SplitCall(pass, w, k, f) == [pass |-> pass, word |-> w, strip |-> k, frame |-> f]

---------------------------------------------------------------------------
(* Mode B: TEXTTOFACE_OT_generate_audio.execute                             *)
(* The loop state is [strips, cur, sbw, calls] and the loop's own variables: *)
(* sequences_all, the index of audio_strip (resp. strip), strips_by_word,   *)
(* the split calls so far.                                                  *)

\* One iteration of "for i, word in enumerate(word_segments)" (i from 1 here).
WordStep(s, d, rate) ==
    LET i == s.i
        word_start == RoundFrame(d[i].start, rate)
        word_end   == RoundFrame(d[i].end, rate)
        \* if i == 0: audio_strip.frame_final_start = word_start
        ss0 == IF i = 1 THEN [s.strips EXCEPT ![s.cur].start = word_start]
               ELSE s.strips
    IN  IF i < Len(d)
        THEN LET ss1   == Split(ss0, s.cur, word_end)
                 left  == FindSound(ss1, word_start, word_end)
                 ss2   == IF left # 0
                          THEN [ss1 EXCEPT ![left].name = "word_" \o d[i].word]
                          ELSE ss1
                 right == FindSoundAt(ss2, word_end)
             IN  [strips |-> ss2,
                  cur    |-> IF right # 0 THEN right ELSE s.cur,
                  sbw    |-> IF left # 0 THEN Append(s.sbw, <<left, i>>) ELSE s.sbw,
                  calls  |-> Append(s.calls, SplitCall("word", i, s.cur, word_end)),
                  i      |-> i + 1]
        ELSE \* Last word
             [strips |-> [ss0 EXCEPT ![s.cur].name = "word_" \o d[i].word],
              cur    |-> s.cur,
              sbw    |-> Append(s.sbw, <<s.cur, i>>),
              calls  |-> s.calls,
              i      |-> i + 1]

RECURSIVE WordPass(_, _, _)
\* for i, word in enumerate(word_segments), from the s.i-th word on
WordPass(s, d, rate) ==
    IF s.i > Len(d) THEN s
    ELSE WordPass(WordStep(s, d, rate), d, rate)

\* PhFrames with i * length // n for round(i * length / n) (the bug C9 rules out)
PhFramesFloor(word_start, word_end, n) ==
    [i \in 1 .. (n - 1) |-> word_start + (i * (word_end - word_start)) \div n]

\* ph_frames = [word_start + int(round(i * length / n)) for i in range(1, n)]
PhFrames(word_start, word_end, n) ==
    [i \in 1 .. (n - 1) |-> word_start + PyRound(i * (word_end - word_start), n)]

RECURSIVE PhonemeLoop(_, _, _, _)
\* "for j, ph_frame in enumerate(ph_frames)" from the s.j-th frame on (j from 1);
\* s.cur is strip, s.ph is ph_strips, s.prev_start is prev_start.
PhonemeLoop(s, phonemes, ph_frames, w) ==
    IF s.j > Len(ph_frames) THEN s
    ELSE LET j == s.j
             ph_frame == ph_frames[j]
             ss1   == Split(s.strips, s.cur, ph_frame)
             left  == FindSound(ss1, s.prev_start, ph_frame)
             ss2   == IF left # 0
                      THEN [ss1 EXCEPT ![left].name = "ph_" \o phonemes[j]]
                      ELSE ss1
             right == FindSoundAt(ss2, ph_frame)
         IN  PhonemeLoop(
                [strips |-> ss2,
                 cur    |-> IF right # 0 THEN right ELSE s.cur,
                 ph     |-> IF left # 0 THEN Append(s.ph, left) ELSE s.ph,
                 calls  |-> Append(s.calls, SplitCall("phoneme", w, s.cur, ph_frame)),
                 j      |-> j + 1,
                 prev_start |-> ph_frame],
                phonemes, ph_frames, w)

\* bpy.ops.sequencer.meta_make() with the strips ph selected, then the search for
\* the new meta strip and its renaming.
MetaMake(ss, ph, word) ==
    LET a   == Min({ ss[k].start : k \in { ph[x] : x \in DOMAIN ph } })
        b   == Max({ ss[k].end : k \in { ph[x] : x \in DOMAIN ph } })
        ss1 == Append(ss, [type |-> "META", name |-> "MetaStrip",
                           start |-> a, end |-> b])
        meta == FindMeta(ss1, ss1[ph[1]].start, ss1[ph[Len(ph)]].end)
    IN  IF meta # 0 THEN [ss1 EXCEPT ![meta].name = "word_" \o word \o "_meta"]
        ELSE ss1

\* One iteration of "for strip, word in strips_by_word" (the s.x-th entry).
PhonemeStep(s, d, sbw) ==
    LET strip == sbw[s.x][1]
        w == sbw[s.x][2]
        phonemes == d[w].phonemes
        n == Len(phonemes)
    IN  IF n < 2
        THEN [s EXCEPT !.strips[strip].name =
                 s.strips[strip].name \o "_ph_" \o
                 (IF phonemes # <<>> THEN phonemes[1] ELSE ""),
                       !.x = s.x + 1]
        ELSE LET word_start == s.strips[strip].start
                 word_end   == s.strips[strip].end
                 l == PhonemeLoop([strips |-> s.strips, cur |-> strip, ph |-> <<>>,
                                   calls |-> s.calls, j |-> 1,
                                   prev_start |-> word_start],
                                  phonemes, PhFrames(word_start, word_end, n), w)
                 \* Last phoneme
                 ss == [l.strips EXCEPT ![l.cur].name = "ph_" \o phonemes[n]]
             IN  [strips |-> MetaMake(ss, Append(l.ph, l.cur), d[w].word),
                  calls  |-> l.calls,
                  x      |-> s.x + 1]

RECURSIVE PhonemePass(_, _, _)
\* for strip, word in strips_by_word, from the s.x-th entry on
PhonemePass(s, d, sbw) ==
    IF s.x > Len(sbw) THEN s
    ELSE PhonemePass(PhonemeStep(s, d, sbw), d, sbw)

\* Length in frames of the generated audio: it holds every word.
AudioFrames(d, rate, tail) ==
    IF d = <<>> THEN 1 + tail
    ELSE Max({1, RoundFrame(d[Len(d)].end, rate) + tail})

\* The backend's document d and the length of its audio are the inputs.
GenerateAudio ==
    /\ addon = "timeline"
    /\ stage < MaxRuns
    /\ strips = <<>>          \* the model follows one generation, on an empty sequencer
    /\ stage' = stage + 1
    /\ last' = "generate_audio"
    /\ \E d \in Docs, tail \in 0 .. MaxTail :
       LET ss0 == sound_strip_add(strips, AudioFrames(d, fps, tail))
           wp  == WordPass([strips |-> ss0, cur |-> Len(ss0), sbw |-> <<>>,
                            calls |-> <<>>, i |-> 1], d, fps)
           pp  == PhonemePass([strips |-> wp.strips, calls |-> wp.calls, x |-> 1],
                              d, wp.sbw)
       IN  /\ strips' = pp.strips
           /\ splits' = pp.calls
           /\ strips_by_word' = wp.sbw
           /\ word_strips' = wp.strips
           /\ doc' = d
    /\ result' = "FINISHED"
    /\ UNCHANGED <<addon, fps, value, kf, prev_doc, events>>

---------------------------------------------------------------------------
(* TEXTTOFACE_OT_export_shape_keys.execute *)

RECURSIVE ExportStrips(_, _, _)
\* for s in seq.sequences_all, from the k-th strip on
ExportStrips(st, ss, k) ==
    IF k > Len(ss) THEN st
    ELSE LET s == ss[k]
             viseme == ClassifyExport(SliceFrom(s.name, 3))
         IN  IF s.type = "SOUND" /\ StartsWith(s.name, "ph_")
                /\ viseme # None /\ viseme \in DOMAIN st.value
             THEN ExportStrips(
                     KeyframeInsert([
                        KeyframeInsert([st EXCEPT !.value[viseme] = 1],
                                       viseme, s.start)
                        EXCEPT !.value[viseme] = 0], viseme, s.end),
                     ss, k + 1)
             ELSE ExportStrips(st, ss, k + 1)

ExportShapeKeys ==
    /\ addon = "timeline"
    /\ stage < MaxRuns
    /\ stage' = stage + 1
    /\ last' = "export_shape_keys"
    /\ IF DOMAIN value = {} \/ strips = <<>>
       THEN \* no shape keys, or no sequence editor yet
            /\ result' = "CANCELLED"
            /\ UNCHANGED <<value, kf>>
       ELSE LET st == ExportStrips([value |-> value, kf |-> kf], strips, 1)
            IN  /\ result' = "FINISHED"
                /\ value' = st.value
                /\ kf' = st.kf
    /\ UNCHANGED <<addon, fps, strips, doc, prev_doc, events, splits, strips_by_word,
                   word_strips>>

---------------------------------------------------------------------------

Init ==
    /\ addon \in {"direct", "timeline"}
    /\ fps \in FpsSet
    /\ \E t \in Targets :
         /\ value = t.value
         /\ kf = [k \in DOMAIN t.value |-> NoKeyframes]
    /\ strips = <<>>
    /\ doc = <<>>
    /\ prev_doc = <<"none">>
    /\ last = "none"
    /\ stage = 0
    /\ result = "none"
    /\ events = <<>>
    /\ splits = <<>>
    /\ strips_by_word = <<>>
    /\ word_strips = <<>>

Next ==
    \/ GenerateAndImport
    \/ GenerateAudio
    \/ ExportShapeKeys

Spec == Init /\ [][Next]_vars

---------------------------------------------------------------------------
(* Any JSON the backend may leave on disk.  Neither operator validates the  *)
(* file: json.load accepts whatever parses, and the segments are read with  *)
(* word["start"], word["end"], word['word'] (KeyError when the key is       *)
(* missing) and word.get("phonemes", []).  A segment is a record whose      *)
(* DOMAIN is the set of its keys; "phonemes" is present in every segment    *)
(* below.                                                                   *)

Seg(word, start, end, phonemes) ==
    [word |-> word, start |-> start, end |-> end, phonemes |-> phonemes]

\* a chronological document of two words
TwoWordDoc ==
    << Seg("but", 0, 2, <<"B", "AH0", "T">>), Seg("Hi", 2, 4, <<"HH", "AY1">>) >>

\* documents whose segments are not chronological: start > end, start = end, a
\* segment starting before its predecessor ends, segments in reverse order
OutOfOrderDocs ==
    { << Seg("but", 3, 1, <<"B", "AH0", "T">>) >>,
      << Seg("I", 2, 2, <<"AY1">>) >>,
      << Seg("but", 0, 3, <<"B", "AH0", "T">>), Seg("Hi", 2, 4, <<"HH", "AY1">>) >>,
      << Seg("Hi", 2, 4, <<"HH", "AY1">>), Seg("but", 0, 1, <<"B", "AH0", "T">>) >> }

\* documents with a segment that lacks "start", "end" or "word"
MalformedDocs ==
    { \* the second segment has no "start"
      << Seg("but", 0, 2, <<"B", "AH0", "T">>),
         [word |-> "Hi", end |-> 4, phonemes |-> <<"HH", "AY1">>] >>,
      \* the second segment has no "end"
      << Seg("but", 0, 2, <<"B", "AH0", "T">>),
         [word |-> "Hi", start |-> 2, phonemes |-> <<"HH", "AY1">>] >>,
      \* the second of three segments has no "end"
      << Seg("but", 0, 1, <<"B", "AH0", "T">>),
         [word |-> "I", start |-> 1, phonemes |-> <<"AY1">>],
         Seg("Hi", 2, 4, <<"HH", "AY1">>) >>,
      \* the first segment has no "word"
      << [start |-> 0, end |-> 2, phonemes |-> <<"B", "AH0", "T">>],
         Seg("Hi", 2, 4, <<"HH", "AY1">>) >>,
      \* the last segment has no "word"
      << Seg("but", 0, 2, <<"B", "AH0", "T">>),
         [start |-> 2, end |-> 4, phonemes |-> <<"HH", "AY1">>] >>,
      \* the only segment has no "start"
      << [word |-> "I", end |-> 2, phonemes |-> <<"AY1">>] >> }

JsonDocs == {<<>>, ExampleDoc, StressDoc, TwoWordDoc} \cup OutOfOrderDocs \cup MalformedDocs

\* word[k] succeeds for every k of keys
Has(word, keys) == keys \subseteq DOMAIN word

RECURSIVE ImportWords(_, _, _)
\* "for word in word_segments" of generate_and_import from the s.i-th word on.
\* s is the shape keys [value, kf] with the loop's own state: s.calls the
\* insert_viseme calls so far, s.raised whether a KeyError has left the loop.
ImportWords(s, d, rate) ==
    IF s.raised \/ s.i > Len(d) THEN s
    ELSE IF ~Has(d[s.i], {"start", "end"})
    THEN [s EXCEPT !.raised = TRUE]
    ELSE LET calls == PhonemeCalls(d[s.i].phonemes, IntFrame(d[s.i].start, rate),
                                   IntFrame(d[s.i].end, rate), s.i)
             st == ApplyCalls([value |-> s.value, kf |-> s.kf], calls)
         IN  ImportWords([value |-> st.value, kf |-> st.kf,
                          calls |-> s.calls \o calls, i |-> s.i + 1,
                          raised |-> FALSE],
                         d, rate)

\* generate_and_import from json.load on: frame_start and frame_end read
\* word_segments[0]["start"] and word_segments[-1]["end"] before anything is
\* written; then clear_viseme_keys, then the loop.
ImportJson(st, d, rate) ==
    IF d # <<>> /\ ~(Has(d[1], {"start"}) /\ Has(d[Len(d)], {"end"}))
    THEN [value |-> st.value, kf |-> st.kf, calls |-> <<>>, i |-> 1, raised |-> TRUE]
    ELSE LET cl == clear_viseme_keys(st, ClearStart(d, rate), ClearEnd(d, rate))
         IN  ImportWords([value |-> cl.value, kf |-> cl.kf, calls |-> <<>>,
                          i |-> 1, raised |-> FALSE],
                         d, rate)

\* generate_and_import reading any of JsonDocs.  Nothing catches the KeyError:
\* it leaves execute as a Python exception and what was written stays written.
GenerateAndImportJson ==
    /\ addon = "direct"
    /\ stage < MaxRuns
    /\ stage' = stage + 1
    /\ last' = "generate_and_import"
    /\ IF DOMAIN value = {}
       THEN /\ result' = "CANCELLED"
            /\ UNCHANGED <<value, kf, doc, prev_doc, events>>
       ELSE \E d \in JsonDocs :
            LET s == ImportJson([value |-> value, kf |-> kf], d, fps)
            IN  /\ result' = IF s.raised THEN "EXCEPTION" ELSE "FINISHED"
                /\ doc' = d
                /\ prev_doc' = IF stage = 0 THEN <<"none">> ELSE doc
                /\ events' = s.calls
                /\ value' = s.value
                /\ kf' = s.kf
    /\ UNCHANGED <<addon, fps, strips, splits, strips_by_word, word_strips>>

\* the timestamps a document holds
Stamps(d) ==
    UNION { { d[i][k] : k \in {"start", "end"} \cap DOMAIN d[i] } : i \in DOMAIN d }

\* Length in frames of the generated audio: it holds every timestamp.
AudioFramesJson(d, rate, tail) ==
    Max({1} \cup { RoundFrame(t, rate) + tail : t \in Stamps(d) })

\* One iteration of generate_audio's "for i, word in enumerate(word_segments)"
\* with the KeyErrors of word['start'], word['end'] and word['word'].
WordStepJson(s, d, rate) ==
    IF ~Has(d[s.i], {"start", "end"})
    THEN [s EXCEPT !.raised = TRUE]
    ELSE LET i == s.i
             word_start == RoundFrame(d[i].start, rate)
             word_end   == RoundFrame(d[i].end, rate)
             ss0 == IF i = 1 THEN [s.strips EXCEPT ![s.cur].start = word_start]
                    ELSE s.strips
         IN  IF i < Len(d)
             THEN LET ss1   == Split(ss0, s.cur, word_end)
                      left  == FindSound(ss1, word_start, word_end)
                      calls == Append(s.calls, SplitCall("word", i, s.cur, word_end))
                  IN  IF left # 0 /\ ~Has(d[i], {"word"})
                      THEN [s EXCEPT !.strips = ss1, !.calls = calls, !.raised = TRUE]
                      ELSE LET ss2 == IF left # 0
                                      THEN [ss1 EXCEPT ![left].name = "word_" \o d[i].word]
                                      ELSE ss1
                               right == FindSoundAt(ss2, word_end)
                           IN  [strips |-> ss2,
                                cur    |-> IF right # 0 THEN right ELSE s.cur,
                                sbw    |-> IF left # 0 THEN Append(s.sbw, <<left, i>>)
                                           ELSE s.sbw,
                                calls  |-> calls,
                                i      |-> i + 1,
                                raised |-> FALSE]
             ELSE IF ~Has(d[i], {"word"})
                  THEN [s EXCEPT !.strips = ss0, !.raised = TRUE]
                  ELSE [strips |-> [ss0 EXCEPT ![s.cur].name = "word_" \o d[i].word],
                        cur    |-> s.cur,
                        sbw    |-> Append(s.sbw, <<s.cur, i>>),
                        calls  |-> s.calls,
                        i      |-> i + 1,
                        raised |-> FALSE]

RECURSIVE WordPassJson(_, _, _)
WordPassJson(s, d, rate) ==
    IF s.raised \/ s.i > Len(d) THEN s
    ELSE WordPassJson(WordStepJson(s, d, rate), d, rate)

\* generate_audio reading any of JsonDocs.  "except Exception" turns the KeyError
\* into CANCELLED; the strip added and the strips split and renamed before it
\* stay as they are.  Every word of strips_by_word has its 'word' key, so the
\* phoneme-level pass raises nothing.
GenerateAudioJson ==
    /\ addon = "timeline"
    /\ stage < MaxRuns
    /\ strips = <<>>
    /\ stage' = stage + 1
    /\ last' = "generate_audio"
    /\ \E d \in JsonDocs, tail \in 0 .. MaxTail :
       LET ss0 == sound_strip_add(strips, AudioFramesJson(d, fps, tail))
           wp  == WordPassJson([strips |-> ss0, cur |-> Len(ss0), sbw |-> <<>>,
                                calls |-> <<>>, i |-> 1, raised |-> FALSE], d, fps)
       IN  /\ doc' = d
           /\ strips_by_word' = wp.sbw
           /\ word_strips' = wp.strips
           /\ IF wp.raised
              THEN /\ result' = "CANCELLED"
                   /\ strips' = wp.strips
                   /\ splits' = wp.calls
              ELSE LET pp == PhonemePass([strips |-> wp.strips, calls |-> wp.calls,
                                          x |-> 1], d, wp.sbw)
                   IN  /\ result' = "FINISHED"
                       /\ strips' = pp.strips
                       /\ splits' = pp.calls
    /\ UNCHANGED <<addon, fps, value, kf, prev_doc, events>>

NextJson ==
    \/ GenerateAndImportJson
    \/ GenerateAudioJson
    \/ ExportShapeKeys

SpecJson == Init /\ [][NextJson]_vars

---------------------------------------------------------------------------
(* What the design document states, for comparison with the operators      *)

\* round to nearest, an exact half up: floor(t * fps + 1/2)
NearestHalfUp(t, rate) == (2 * t * rate + TicksPerSecond) \div (2 * TicksPerSecond)

StressDigits == {"0", "1", "2"}

\* the phoneme symbol without its trailing stress digit
Bare(ph) ==
    IF ph # "" /\ SubSeq(ph, Len(ph), Len(ph)) \in StressDigits
    THEN SubSeq(ph, 1, Len(ph) - 1)
    ELSE ph

RanModeA == last = "generate_and_import" /\ result = "FINISHED"
RanModeB == last = "generate_audio" /\ result = "FINISHED"
RanExport == last = "export_shape_keys" /\ result = "FINISHED"

\* the timestamp an insert_viseme call was made for
StampOf(e) == IF e.strength = 1 THEN doc[e.word].start ELSE doc[e.word].end

---------------------------------------------------------------------------
\* C1: every timestamp -> frame conversion yields the integer nearest to t * fps,
\* exact halves rounding up: the frames of Mode A's events and clear range, the
\* word split frames of Mode B, and hence the same frame for the same t and fps in
\* both modes.  (Stated as the claim has it; the operators do not satisfy it.)
C1_FramesNearestHalfUpInBothModes ==
    /\ RanModeA =>
         /\ \A k \in DOMAIN events :
               events[k].frame = NearestHalfUp(StampOf(events[k]), fps)
         /\ doc # <<>> =>
               /\ ClearStart(doc, fps) = NearestHalfUp(doc[1].start, fps)
               /\ ClearEnd(doc, fps) = NearestHalfUp(doc[Len(doc)].end, fps)
    /\ RanModeB =>
         \A k \in DOMAIN splits :
            splits[k].pass = "word" =>
               splits[k].frame = NearestHalfUp(doc[splits[k].word].end, fps)
    /\ \A w \in DOMAIN doc :
         /\ IntFrame(doc[w].start, fps) = RoundFrame(doc[w].start, fps)
         /\ IntFrame(doc[w].end, fps) = RoundFrame(doc[w].end, fps)

\* C2: the stress digit is stripped before the table lookup: a phoneme b+d with b
\* in the table and d in 0..2 gets b's viseme, in Mode A (the word has events for
\* that viseme) and in export_shape_keys (the strip named "ph_"+b+d is classified
\* as b).  (Stated as the claim has it; the operators do not satisfy it.)
C2_StressDigitStrippedBeforeLookup ==
    /\ RanModeA =>
         \A w \in DOMAIN doc : \A x \in DOMAIN doc[w].phonemes :
            LET b == Bare(doc[w].phonemes[x])
            IN  b \in DOMAIN ARPABET_TO_VISEME =>
                   \E k \in DOMAIN events :
                      /\ events[k].word = w
                      /\ events[k].viseme = ARPABET_TO_VISEME[b]
    /\ RanExport =>
         \A k \in DOMAIN strips :
            (strips[k].type = "SOUND" /\ StartsWith(strips[k].name, "ph_")) =>
               LET ph == SliceFrom(strips[k].name, 3)
               IN  Bare(ph) \in DOMAIN ARPABET_TO_VISEME =>
                      ClassifyExport(ph) = ARPABET_TO_VISEME[Bare(ph)]

\* the visemes of a word's classified phonemes, in phoneme order
DirectVisemes(phonemes) ==
    SelectSeq([x \in DOMAIN phonemes |-> ClassifyDirect(phonemes[x])],
              LAMBDA v : v # None)

EventsOfWord(i) == SelectSeq(events, LAMBDA e : e.word = i)

\* C3: Mode A emits, word by word in document order, for every phoneme the
\* classifier gives a category exactly two events: (category, 1.0) at the word's
\* start frame, then (category, 0.0) at the word's end frame; nothing else is
\* emitted and every strength is 0.0 or 1.0.
C3_TwoEventsPerClassifiedPhoneme ==
    RanModeA =>
       /\ \A k \in DOMAIN events :
             events[k].strength \in {0, 1} /\ events[k].word \in DOMAIN doc
       /\ \A k \in 2 .. Len(events) : events[k - 1].word <= events[k].word
       /\ \A w \in DOMAIN doc :
             LET ev  == EventsOfWord(w)
                 vis == DirectVisemes(doc[w].phonemes)
             IN  /\ Len(ev) = 2 * Len(vis)
                 /\ \A m \in DOMAIN vis :
                       /\ ev[2 * m - 1] =
                             Call(vis[m], IntFrame(doc[w].start, fps), 1, w)
                       /\ ev[2 * m] =
                             Call(vis[m], IntFrame(doc[w].end, fps), 0, w)

\* C3 witness: a two-word document in which a word has classified phonemes around
\* an unclassified one, and both words have events.
C3_Witness ==
    /\ RanModeA
    /\ Len(doc) = 2
    /\ doc[1].phonemes = <<"B", "AH0", "T">>
    /\ Len(EventsOfWord(1)) = 4
    /\ Len(EventsOfWord(2)) = 4

\* the object as it is, with every keyframe removed
WithoutKeyframes == [value |-> value, kf |-> [k \in DOMAIN value |-> NoKeyframes]]

\* C4: Mode A leaves nothing of an earlier generation behind: whatever was
\* generated before, the keyframes after generate_and_import has read a document
\* are those of the same generation on the object without keyframes.
\* (Stated as the claim has it; the operators do not satisfy it.)
C4_NoLeftoversOfEarlierGeneration ==
    [][ (last' = "generate_and_import" /\ result' = "FINISHED") =>
           kf' = ModeA(WithoutKeyframes, doc', fps).kf ]_vars

\* C5: Mode A is idempotent: after one generation on an object without
\* keyframes, generating the same document again leaves every keyframe and every
\* value of every channel as it is.
C5_RegenerationOfSameDocumentChangesNothing ==
    [][ ( /\ RanModeA
          /\ stage = 1
          /\ last' = "generate_and_import"
          /\ doc' = doc )
        => (kf' = kf /\ value' = value) ]_vars

\* C5 witness: the same document, with events on a channel of the object, has
\* been generated twice in a row.
C5_Witness ==
    /\ RanModeA
    /\ stage = 2
    /\ prev_doc = doc
    /\ \E k \in DOMAIN events :
          /\ events[k].viseme \in DOMAIN value
          /\ events[k].strength = 1
          /\ kf[events[k].viseme][events[k].frame] = 1

\* C6: an empty word_segments gives an empty plan in both modes: Mode A writes no
\* keyframe, Mode B splits and renames nothing, and neither fails.
\* (Stated as the claim has it; the operators do not satisfy it.)
C6_EmptyDocumentChangesNothing ==
    [][ (doc' = <<>> /\ result' = "FINISHED") =>
           /\ last' = "generate_and_import" => kf' = kf
           /\ last' = "generate_audio" =>
                 /\ splits' = <<>>
                 /\ Len(strips') = 1
                 /\ strips'[1].name = AudioName ]_vars

\* Mode B: split frames never go back within a pass, no strip ends before it starts
SplitFramesNonDecreasing ==
    /\ \A k \in 2 .. Len(splits) :
          splits[k - 1].pass = splits[k].pass =>
             splits[k - 1].frame <= splits[k].frame
    /\ \A k \in DOMAIN strips : strips[k].start <= strips[k].end

\* C7 as stated: for a valid document the frames of the output never decrease in
\* the order the output is produced: every Mode A event's frame is >= the frame
\* of the event before it, every Mode B split frame is >= the one before it in
\* its pass, and no strip has end < start.
C7_FramesNeverDecreaseInEmissionOrder ==
    /\ RanModeA =>
          \A k \in 2 .. Len(events) : events[k - 1].frame <= events[k].frame
    /\ RanModeB => SplitFramesNonDecreasing

\* C7 as amended: Mode A's frames never decrease from word to word (an event of
\* a later word is never before an event of an earlier word) and within a word
\* no activation is after a deactivation; the Mode B part is as stated.
C7_FramesNeverDecreaseFromWordToWord ==
    /\ RanModeA =>
          \A j \in DOMAIN events : \A k \in DOMAIN events :
             /\ events[j].word < events[k].word =>
                   events[j].frame <= events[k].frame
             /\ ( /\ events[j].word = events[k].word
                  /\ events[j].strength = 1
                  /\ events[k].strength = 0 ) =>
                   events[j].frame <= events[k].frame
    /\ RanModeB => SplitFramesNonDecreasing

\* C7 witness: two words with two classified phonemes each, so that the events of
\* each word go start, end, start, end with start < end.
C7_Witness ==
    /\ RanModeA
    /\ Len(doc) = 2
    /\ Len(EventsOfWord(1)) = 4
    /\ Len(EventsOfWord(2)) = 4
    /\ \A k \in {1, 3, 5, 7} : events[k].frame < events[k + 1].frame

\* no word of the document starts and ends on the same frame
EveryWordKeepsAFrame ==
    \A i \in DOMAIN doc : RoundFrame(doc[i].start, fps) < RoundFrame(doc[i].end, fps)

\* C8: the word-level pass of Mode B splits the trailing strip once per word but
\* the last, at that word's end frame, and gives every word of the document,
\* gaps or not, exactly one strip of its own, labelled with the word and passed on
\* to the phoneme-level pass.  (Stated as the claim has it; the operators do not
\* satisfy it.)  Checked on the documents whose words all keep at least one
\* frame; the words that quantize to nothing are C10's case.
C8_EveryWordOwnsOneWordStrip ==
    (RanModeB /\ EveryWordKeepsAFrame) =>
       /\ Len(strips_by_word) = Len(doc)
       /\ \A i \in DOMAIN strips_by_word :
             /\ strips_by_word[i][2] = i
             /\ word_strips[strips_by_word[i][1]].name = "word_" \o doc[i].word
             /\ i < Len(doc) =>
                   word_strips[strips_by_word[i][1]].end = RoundFrame(doc[i].end, fps)
       /\ \A i \in DOMAIN strips_by_word : \A j \in DOMAIN strips_by_word :
             i # j => strips_by_word[i][1] # strips_by_word[j][1]
       /\ \A i \in 1 .. (Len(doc) - 1) :
             /\ splits[i].pass = "word"
             /\ splits[i].word = i
             /\ splits[i].frame = RoundFrame(doc[i].end, fps)

\* the frame of the i-th phoneme boundary of a strip [a, b) of n phonemes
Boundary(lo, hi, cnt, i) == lo + PyRound(i * (hi - lo), cnt)

\* strip k of the word-level pass, holding word w, ended up as one strip per
\* phoneme: the j-th is [Boundary(j-1), Boundary(j)) and is named "ph_"+phonemes[j]
SplitIntoPhonemes(k, w) ==
    LET a == word_strips[k].start
        b == word_strips[k].end
        n == Len(doc[w].phonemes)
    IN  /\ \A j \in 1 .. n :
              \E x \in DOMAIN strips :
                 /\ strips[x].type = "SOUND"
                 /\ strips[x].start = Boundary(a, b, n, j - 1)
                 /\ strips[x].end = Boundary(a, b, n, j)
                 /\ strips[x].name = "ph_" \o doc[w].phonemes[j]
        /\ Cardinality({ x \in DOMAIN strips :
                           /\ strips[x].type = "SOUND"
                           /\ a <= strips[x].start
                           /\ strips[x].end <= b }) = n

\* every phoneme of the strip gets at least one frame
BoundariesDistinct(k, w) ==
    LET a == word_strips[k].start
        b == word_strips[k].end
        n == Len(doc[w].phonemes)
    IN  \A j \in 1 .. n : Boundary(a, b, n, j - 1) < Boundary(a, b, n, j)

\* C9 as stated: every word strip with n >= 2 phonemes is split at
\* word_start + round(i * span / n), i = 1..n-1, and ends up as n strips, the
\* j-th named "ph_" + phonemes[j].
C9_WordStripSplitIntoNPhonemes ==
    RanModeB =>
       \A i \in DOMAIN strips_by_word :
          LET k == strips_by_word[i][1]
              w == strips_by_word[i][2]
          IN  Len(doc[w].phonemes) >= 2 => SplitIntoPhonemes(k, w)

\* C9 as amended: that holds of the word strips whose n-1 split frames are
\* distinct and strictly inside the strip, round being Python's round (an exact
\* half goes to the even frame).
C9_WordStripSplitWhereBoundariesDistinct ==
    RanModeB =>
       \A i \in DOMAIN strips_by_word :
          LET k == strips_by_word[i][1]
              w == strips_by_word[i][2]
          IN  (Len(doc[w].phonemes) >= 2 /\ BoundariesDistinct(k, w))
                 => SplitIntoPhonemes(k, w)

\* C9 witness: a word strip of three phonemes with distinct boundaries, one of
\* them rounded up, next to another word.
C9_Witness ==
    /\ RanModeB
    /\ Len(strips_by_word) >= 2
    /\ \E i \in DOMAIN strips_by_word :
          LET k == strips_by_word[i][1]
              w == strips_by_word[i][2]
              a == word_strips[k].start
              b == word_strips[k].end
          IN  /\ Len(doc[w].phonemes) = 3
              /\ BoundariesDistinct(k, w)
              /\ SplitIntoPhonemes(k, w)
              /\ \E j \in 1 .. 2 : Boundary(a, b, 3, j) > a + (j * (b - a)) \div 3

---------------------------------------------------------------------------
(* The claims about documents that are not valid, checked under SpecJson *)

\* every segment has its four keys
WellFormed(d) ==
    \A i \in DOMAIN d : Has(d[i], {"word", "start", "end", "phonemes"})

\* a segment with start >= end, or one that starts before its predecessor ends
OutOfOrder(d) ==
    /\ WellFormed(d)
    /\ \/ \E i \in DOMAIN d : d[i].start >= d[i].end
       \/ \E i \in 2 .. Len(d) : d[i].start < d[i - 1].end

\* C11: a document with a segment whose start >= end, or with a segment that
\* starts before its predecessor ends, is rejected in both modes: the operator that
\* reads it does not finish, Mode A writes no keyframe and changes no value, Mode
\* B asks for no split and renames no strip.  (Stated as the claim has it; the
\* operators do not satisfy it.)
C11_OutOfOrderDocumentIsRejected ==
    [][ OutOfOrder(doc') =>
          /\ (last' = "generate_and_import" /\ DOMAIN value # {}) =>
                /\ result' # "FINISHED"
                /\ kf' = kf
                /\ value' = value
          /\ last' = "generate_audio" =>
                /\ result' # "FINISHED"
                /\ splits' = <<>>
                /\ \A k \in DOMAIN strips' : strips'[k].name = AudioName ]_vars

\* a segment lacks "start", "end" or "word"
Malformed(d) ==
    \E i \in DOMAIN d : ~Has(d[i], {"word", "start", "end"})

\* C12: all-or-nothing on malformed input: when a segment of the document lacks
\* "start", "end" or "word", the operator that reads it fails and leaves the
\* keyframes of the object (Mode A) and the strips of the sequencer with their
\* names (Mode B) as they were before it ran, also when the malformed segment
\* comes after well-formed ones.  (Stated as the claim has it; the operators do
\* not satisfy it.)
C12_MalformedDocumentChangesNothing ==
    [][ Malformed(doc') =>
          /\ (last' = "generate_and_import" /\ DOMAIN value # {}) =>
                /\ result' # "FINISHED"
                /\ kf' = kf
          /\ last' = "generate_audio" =>
                /\ result' # "FINISHED"
                /\ strips' = strips ]_vars

---------------------------------------------------------------------------
\* the sequence s without its x-th element
Without(s, x) == SubSeq(s, 1, x - 1) \o SubSeq(s, x + 1, Len(s))

\* document d without the x-th phoneme of its w-th word
WithoutPhoneme(d, w, x) == [d EXCEPT ![w].phonemes = Without(@, x)]

\* a symbol that is not in the table, with or without its stress digit
Unrecognized(ph) == Bare(ph) \notin DOMAIN ARPABET_TO_VISEME

PhonemeStrip(s) == s.type = "SOUND" /\ StartsWith(s.name, "ph_")

\* C13: a phoneme symbol that is not in the table gets no viseme from either
\* classifier, and a phoneme without a viseme is skipped silently: the operator
\* finishes, and the events (Mode A) and the keyframes and values of every
\* channel (Mode A, export_shape_keys) are exactly those of the same run on the
\* document, resp. the strips, without that phoneme.
C13_UnclassifiedPhonemeChangesNothing ==
    [][ /\ (last' = "generate_and_import" /\ DOMAIN value # {}) =>
             /\ result' = "FINISHED"
             /\ \A w \in DOMAIN doc' : \A x \in DOMAIN doc'[w].phonemes :
                   /\ Unrecognized(doc'[w].phonemes[x]) =>
                         ClassifyDirect(doc'[w].phonemes[x]) = None
                   /\ ClassifyDirect(doc'[w].phonemes[x]) = None =>
                         LET d2 == WithoutPhoneme(doc', w, x)
                             st == ModeA([value |-> value, kf |-> kf], d2, fps)
                         IN  /\ events' = WordCalls(d2, 1, fps)
                             /\ kf' = st.kf
                             /\ value' = st.value
        /\ (last' = "export_shape_keys" /\ result' = "FINISHED") =>
             \A k \in DOMAIN strips :
                PhonemeStrip(strips[k]) =>
                   LET ph == SliceFrom(strips[k].name, 3)
                   IN  /\ Unrecognized(ph) => ClassifyExport(ph) = None
                       /\ ClassifyExport(ph) = None =>
                             LET st == ExportStrips([value |-> value, kf |-> kf],
                                                    Without(strips, k), 1)
                             IN  kf' = st.kf /\ value' = st.value ]_vars

\* C13 witness: "Hi", whose HH is not in the table, then "but", whose AH0 gets no
\* viseme between B and T; B and T have their events and their keyframes.
C13_Witness ==
    /\ RanModeA
    /\ Len(doc) = 2
    /\ doc[1].phonemes = <<"HH", "AY1">>
    /\ doc[2].phonemes = <<"B", "AH0", "T">>
    /\ EventsOfWord(1) = <<>>
    /\ Len(EventsOfWord(2)) = 4
    /\ \A k \in DOMAIN events :
          /\ events[k].viseme \in DOMAIN value
          /\ events[k].frame \in DOMAIN kf[events[k].viseme]
    /\ IntFrame(doc[2].start, fps) < IntFrame(doc[2].end, fps)

---------------------------------------------------------------------------
\* the viseme identifiers of the design document's glossary
GlossaryVisemes ==
    { "viseme_AA", "viseme_BM", "viseme_CH", "viseme_D", "viseme_E", "viseme_FV",
      "viseme_GK", "viseme_I", "viseme_L", "viseme_N", "viseme_O", "viseme_R",
      "viseme_S", "viseme_SH", "viseme_TH", "viseme_W", "viseme_Y" }

\* C14: Mode A writes only to channels that exist on the object and are named by
\* a viseme identifier of the glossary: an event whose viseme has no channel is
\* ignored without error (the operator finishes, no channel appears), and every
\* channel with another name keeps all its keyframes and its value, through the
\* clear step and the event writes.  (Stated as the claim has it; the operators
\* do not satisfy it.)
C14_OnlyGlossaryChannelsAreWritten ==
    [][ (last' = "generate_and_import" /\ DOMAIN value # {}) =>
           /\ result' = "FINISHED"
           /\ DOMAIN value' = DOMAIN value
           /\ DOMAIN kf' = DOMAIN kf
           /\ \A k \in DOMAIN events' : events'[k].viseme \in GlossaryVisemes
           /\ \A name \in DOMAIN value \ GlossaryVisemes :
                 /\ kf'[name] = kf[name]
                 /\ value'[name] = value[name] ]_vars

\* C14 as amended: Mode A's events go only to channels that exist on the object
\* and are named by a viseme identifier of the glossary, an event whose viseme has
\* no channel is ignored without error, and every channel whose name does not
\* start with "viseme_" keeps all its keyframes and its value.  (The clear step
\* keys every channel whose name starts with "viseme_", in the glossary or not.)
C14_OnlyVisemeChannelsAreWritten ==
    [][ (last' = "generate_and_import" /\ DOMAIN value # {}) =>
           /\ result' = "FINISHED"
           /\ DOMAIN value' = DOMAIN value
           /\ DOMAIN kf' = DOMAIN kf
           /\ \A k \in DOMAIN events' : events'[k].viseme \in GlossaryVisemes
           /\ \A name \in DOMAIN value :
                 /\ ~StartsWith(name, "viseme_") =>
                       /\ kf'[name] = kf[name]
                       /\ value'[name] = value[name]
                 /\ name \notin GlossaryVisemes =>
                       \A f \in DOMAIN kf'[name] \ DOMAIN kf[name] :
                          /\ f \in ClearStart(doc', fps) .. ClearEnd(doc', fps)
                          /\ kf'[name][f] = 0 ]_vars

\* C14 witness: "but" has been generated on the object without a viseme_D
\* channel: the events of T are ignored, those of B are keyed, and Basis has no
\* keyframe.
C14_Witness ==
    /\ RanModeA
    /\ "viseme_D" \notin DOMAIN value
    /\ \E k \in DOMAIN events : events[k].viseme = "viseme_D"
    /\ \E k \in DOMAIN events :
          /\ events[k].viseme = "viseme_BM"
          /\ events[k].strength = 1
          /\ events[k].frame \in DOMAIN kf["viseme_BM"]
          /\ kf["viseme_BM"][events[k].frame] = 1
    /\ kf["Basis"] = NoKeyframes
    /\ ClearStart(doc, fps) < ClearEnd(doc, fps)

---------------------------------------------------------------------------
\* C15: after generate_audio and then export_shape_keys, every phoneme of every
\* word strip whose symbol without the stress digit is in the table, with its
\* viseme a channel of the object, has a keyframe of 1.0 at the first frame and
\* one of 0.0 at the end frame of its region: the j-th of the n even parts of
\* the word strip, or the whole word strip for a word of fewer than 2 phonemes.
\* (Stated as the claim has it; the operators do not satisfy it.)
C15_EveryPhonemeRegionIsKeyed ==
    RanExport =>
       \A i \in DOMAIN strips_by_word :
          LET k == strips_by_word[i][1]
              w == strips_by_word[i][2]
              a == word_strips[k].start
              b == word_strips[k].end
              n == Len(doc[w].phonemes)
          IN  \A j \in 1 .. n :
                 LET ph == Bare(doc[w].phonemes[j])
                     lo == IF n < 2 THEN a ELSE Boundary(a, b, n, j - 1)
                     hi == IF n < 2 THEN b ELSE Boundary(a, b, n, j)
                 IN  (ph \in DOMAIN ARPABET_TO_VISEME
                        /\ ARPABET_TO_VISEME[ph] \in DOMAIN value) =>
                        LET keys == kf[ARPABET_TO_VISEME[ph]]
                        IN  /\ lo \in DOMAIN keys
                            /\ hi \in DOMAIN keys
                            /\ keys[lo] = 1
                            /\ keys[hi] = 0

---------------------------------------------------------------------------
\* the channels Mode A drives for the w-th word: the visemes of its classified
\* phonemes that are shape keys of the object
ChannelsOfWord(w) ==
    { ClassifyDirect(doc[w].phonemes[x]) : x \in DOMAIN doc[w].phonemes }
       \cap DOMAIN value

\* C16 as stated: after Mode A every word leaves each of its channels keyed 1.0 at
\* the word's start frame, words whose start and end fall on the same frame
\* included.
C16_WordStartFrameIsActive ==
    RanModeA =>
       \A w \in DOMAIN doc : \A v \in ChannelsOfWord(w) :
          /\ IntFrame(doc[w].start, fps) \in DOMAIN kf[v]
          /\ kf[v][IntFrame(doc[w].start, fps)] = 1

\* C16 as amended: that holds of the words whose start frame is before their end
\* frame.  In general the keyframe a word leaves at its start frame is 1.0 where
\* a word driving the channel starts on that frame and ends on a later one, and
\* 0.0 otherwise: a word whose start and end fall on the same frame writes its
\* deactivation over its activation.
C16_WordStartFrameIsActiveUnlessItIsTheEndFrame ==
    RanModeA =>
       \A w \in DOMAIN doc : \A v \in ChannelsOfWord(w) :
          LET start == IntFrame(doc[w].start, fps)
              end   == IntFrame(doc[w].end, fps)
          IN  /\ start \in DOMAIN kf[v]
              /\ end \in DOMAIN kf[v]
              /\ start < end => kf[v][start] = 1
              /\ kf[v][start] =
                    IF \E u \in DOMAIN doc :
                          /\ v \in ChannelsOfWord(u)
                          /\ IntFrame(doc[u].start, fps) = start
                          /\ start < IntFrame(doc[u].end, fps)
                    THEN 1 ELSE 0

\* C16 witness: a word with a driven channel whose start frame is before its end
\* frame, after a word with a driven channel whose start and end frame are the
\* same, so that the first word's 0.0 lies under the second word's 1.0.
C16_Witness ==
    /\ RanModeA
    /\ Len(doc) >= 2
    /\ ChannelsOfWord(1) # {}
    /\ IntFrame(doc[1].start, fps) = IntFrame(doc[1].end, fps)
    /\ ChannelsOfWord(1) \cap ChannelsOfWord(2) # {}
    /\ IntFrame(doc[2].start, fps) = IntFrame(doc[1].end, fps)
    /\ IntFrame(doc[2].start, fps) < IntFrame(doc[2].end, fps)
    /\ \A v \in ChannelsOfWord(2) : kf[v][IntFrame(doc[2].start, fps)] = 1

---------------------------------------------------------------------------
\* the sound strips of the sequencer: the pieces of the strip generate_audio added
SoundStrips == { k \in DOMAIN strips : strips[k].type = "SOUND" }

\* the sound strips tile the frames [lo, hi): none is empty, no two overlap, each
\* starts at lo or where another ends, each ends at hi or where another starts
Tiles(lo, hi) ==
    /\ SoundStrips # {}
    /\ \A k \in SoundStrips :
          /\ strips[k].start < strips[k].end
          /\ lo <= strips[k].start
          /\ strips[k].end <= hi
          /\ strips[k].start = lo \/ \E j \in SoundStrips : strips[j].end = strips[k].start
          /\ strips[k].end = hi \/ \E j \in SoundStrips : strips[j].start = strips[k].end
    /\ \A j \in SoundStrips : \A k \in SoundStrips :
          j # k => (strips[j].end <= strips[k].start \/ strips[k].end <= strips[j].start)

\* the strip as sound_strip_add made it ended at one of these frames
OriginalEnds == { 1 + AudioFrames(doc, fps, tail) : tail \in 0 .. MaxTail }

Labelled(s) == StartsWith(s.name, "word_") \/ StartsWith(s.name, "ph_")

\* C17: after generate_audio has finished on a document that is not empty, the
\* sound strips are a partition of the frames from the first word's start frame
\* to the end frame of the strip that was added: none is empty, no two overlap,
\* they are contiguous, and each has a name starting with "word_" or "ph_".
\* (Stated as the claim has it; the operators do not satisfy it.)
C17_SoundStripsPartitionTheAudio ==
    (RanModeB /\ doc # <<>>) =>
       /\ \E hi \in OriginalEnds : Tiles(RoundFrame(doc[1].start, fps), hi)
       /\ \A k \in SoundStrips : Labelled(strips[k])

===========================================================================
